---- MODULE Spec2Model ----
(***************************************************************************)
(* A model of tap.py: the asynchronous TAP job (TAP_AsyncQuery), the TAP   *)
(* service client (TAP_Service and its two presets) and the timeit scoped  *)
(* timer.                                                                  *)
(*                                                                         *)
(* Python strings are sequences of tokens; a token is "/" or a piece of    *)
(* text that holds no "/", so that rfind('/') and slicing act on a         *)
(* sequence as they act on the string.  None is the one-token sequence     *)
(* <<"None">>, which no string of the model equals.                        *)
(***************************************************************************)
EXTENDS Integers, Sequences, FiniteSets, TLC

VARIABLES svc, made, jobs, submitted, phase, pc, cur, display, tm, tmcall

vars == <<svc, made, jobs, submitted, phase, pc, cur, display, tm, tmcall>>
tapvars == <<svc, made, jobs, submitted, phase, pc, cur>>
timervars == <<display, tm, tmcall>>

\* ------------------------------------------------------------------ bounds

\* Longest location header the server sends, in tokens.
MaxLen == 2
\* Number of TAP_AsyncQuery objects a service is asked to build.
NJobs == 2

\* ----------------------------------------------------------------- strings

None == <<"None">>

Alphabet == {"/", "a"}

Strs(n) == UNION {[1..k -> Alphabet] : k \in 0..n}

Max(S) == CHOOSE x \in S : \A y \in S : y <= x

\* Fault variant of rfind: str.find, the lowest index of c.  C6 does not hold
\* of it.
rfind_first(s, c) ==
    LET I == {i \in 1..Len(s) : s[i] = c}
    IN  IF I = {} THEN -1 ELSE (CHOOSE x \in I : \A y \in I : x <= y) - 1

\* str.rfind(c): the highest 0-based index of c in s, -1 when c is not in s.
rfind(s, c) ==
    LET I == {i \in 1..Len(s) : s[i] = c}
    IN  IF I = {} THEN -1 ELSE Max(I) - 1

\* s[k:] for 0 <= k.
SliceFrom(s, k) == SubSeq(s, k + 1, Len(s))

\* self.location[self.location.rfind('/') + 1:]
JobIdOf(loc) == SliceFrom(loc, rfind(loc, "/") + 1)

\* ------------------------------------------------------ the remote server

\* The UWS phases the server reports; the client tells COMPLETED from the rest.
Phases == {"EXECUTING", "COMPLETED", "ERROR"}

\* What the transport does with one HTTP exchange: "ok" (a response comes
\* back), "refused" (the connection fails before the request is sent) or
\* "dropped" (the request is sent and no response comes back).
Nets == {"ok", "refused", "dropped"}

\* Response bodies of the result resource and of the sync endpoint.
Bodies == {<<"VOTABLE", "t1">>, <<"VOTABLE", "t2">>, <<"garbage">>}

\* The location headers a submit response may carry (None: no header).
Headers == Strs(MaxLen) \cup {None}

\* Table.read(BytesIO(body), format="votable"): the table, or a parse error.
ParseVOTable(body) ==
    IF body[1] = "VOTABLE" THEN [ok |-> TRUE, table |-> <<"Table", body[2]>>]
    ELSE [ok |-> FALSE, table |-> None]

\* ------------------------------------------------------- call bookkeeping

Ret(v) == [kind |-> "return", val |-> v]
Raise(e) == [kind |-> "raise", val |-> <<e>>]
Running == [kind |-> "running", val |-> None]

\* The HTTP responses an object keeps in self.response, by the exchange that
\* produced them; the response to a submit carries its location header.
SubmitResponse(hdr) == <<"response", "submit", hdr>>
StatusResponse == <<"response", "status">>
ResultResponse == <<"response", "result">>
SyncResponse == <<"response", "sync">>

\* connection.request(method, path) on HTTPConnection(host, port)
Req(method, job, path) ==
    [method |-> method, host |-> job.host, port |-> job.port, path |-> path]

\* What the caller and the network see of the call in progress (or of the
\* last call): its result, the requests it sent, what its last status poll
\* answered (lastPoll; None when the poll raised), whether one of its polls
\* answered COMPLETED, what it did last (lastEv: an evaluation of status, a
\* sleep or the fetch of the result), whether it slept, and whether it printed.
NoCall ==
    [op |-> "none", job |-> 0, wait |-> FALSE, out |-> Running, posts |-> 0,
     reqs |-> {}, lastPoll |-> None, sawCompleted |-> FALSE, lastEv |-> "none",
     slept |-> FALSE, printed |-> FALSE]

Call(op, j) == [NoCall EXCEPT !.op = op, !.job = j]

\* ------------------------------------------------------- TAP_AsyncQuery

Jobs == 1..NJobs

\* TAP_AsyncQuery.__init__ (data does not exist until get assigns it: None).
NewJob(adql_query, host, path, port) ==
    [adql |-> adql_query, host |-> host, port |-> port, path |-> path,
     location |-> None, jobid |-> None, response |-> None, data |-> None]

\* A slot of jobs that holds no object yet.
NoJob == NewJob(None, None, None, 0)

\* Fault variant of SubmitAssign: the job identifier is taken from
\* "location or ''" and the error is raised only afterwards, by the print of a
\* None location.  C1 does not hold of it.
SubmitAssign_JobidBeforeCheck(job, hdr) ==
    IF hdr = None
    THEN [job |-> [job EXCEPT !.response = SubmitResponse(hdr), !.location = None,
                              !.jobid = <<>>],
          out |-> Raise("TypeError")]
    ELSE [job |-> [job EXCEPT !.response = SubmitResponse(hdr), !.location = hdr,
                              !.jobid = SliceFrom(hdr, rfind(hdr, "/") + 1)],
          out |-> Ret(None)]

\* The body of submit after the POST: self.response, self.location and
\* self.jobid are assigned in this order, and the slice of a None location
\* raises before jobid is assigned.
SubmitAssign(job, hdr) ==
    IF hdr = None
    THEN [job |-> [job EXCEPT !.response = SubmitResponse(hdr), !.location = None],
          out |-> Raise("TypeError")]
    ELSE [job |-> [job EXCEPT !.response = SubmitResponse(hdr), !.location = hdr,
                              !.jobid = JobIdOf(hdr)],
          out |-> Ret(None)]

\* submit as a function of the object, the transport and the header:
\* the object after the call, the result, and the requests sent.
SubmitEffect(job, net, hdr, silent) ==
    LET post == Req("POST", job, job.path) IN
    IF net = "refused"
    THEN [job |-> job, out |-> Raise("ConnectionError"), reqs |-> {}, posts |-> 0,
          printed |-> FALSE]
    ELSE IF net = "dropped"
    THEN [job |-> job, out |-> Raise("ConnectionError"), reqs |-> {post}, posts |-> 1,
          printed |-> FALSE]
    ELSE LET a == SubmitAssign(job, hdr) IN
         [job |-> a.job, out |-> a.out, reqs |-> {post}, posts |-> 1,
          printed |-> (a.out.kind = "return" /\ ~silent)]

\* TAP_AsyncQuery.submit
submit(j, net, hdr, silent) ==
    /\ pc = "idle"
    /\ j \in made
    /\ LET e == SubmitEffect(jobs[j], net, hdr, silent) IN
        /\ jobs' = [jobs EXCEPT ![j] = e.job]
        /\ cur' = [Call("submit", j) EXCEPT !.out = e.out, !.reqs = e.reqs,
                                            !.posts = e.posts, !.printed = e.printed]
        /\ submitted' = IF e.out.kind = "return" THEN submitted \cup {j} ELSE submitted
    /\ UNCHANGED <<svc, made, phase, pc, timervars>>

\* Fault variant of Poll: the path is built by "{0}/{1}".format(path, jobid),
\* which accepts a None jobid and sends the request.  C5 does not hold of it.
Poll_Format(job, ph, net, wf) ==
    LET get == Req("GET", job, job.path \o <<"/">> \o job.jobid) IN
    IF net = "refused"
    THEN [out |-> Raise("ConnectionError"), response |-> job.response, reqs |-> {}]
    ELSE IF net = "dropped"
    THEN [out |-> Raise("ConnectionError"), response |-> job.response, reqs |-> {get}]
    ELSE IF ~wf
    THEN [out |-> Raise("ParseError"), response |-> StatusResponse, reqs |-> {get}]
    ELSE [out |-> Ret(<<ph>>), response |-> StatusResponse, reqs |-> {get}]

\* One evaluation of the status property: ph is the phase the server holds for
\* the job, wf whether the body it sends is well-formed UWS XML.  The path
\* concatenation raises on a None jobid before any request is made.
Poll(job, ph, net, wf) ==
    LET get == Req("GET", job, job.path \o <<"/">> \o job.jobid) IN
    IF job.jobid = None
    THEN [out |-> Raise("TypeError"), response |-> job.response, reqs |-> {}]
    ELSE IF net = "refused"
    THEN [out |-> Raise("ConnectionError"), response |-> job.response, reqs |-> {}]
    ELSE IF net = "dropped"
    THEN [out |-> Raise("ConnectionError"), response |-> job.response, reqs |-> {get}]
    ELSE IF ~wf
    THEN [out |-> Raise("ParseError"), response |-> StatusResponse, reqs |-> {get}]
    ELSE [out |-> Ret(<<ph>>), response |-> StatusResponse, reqs |-> {get}]

\* Fault variant of IsCompleted: the terminal phase ERROR counts as finished
\* too.  C4 does not hold of it.
IsCompleted_Terminal(ph) == ph \in {<<"COMPLETED">>, <<"ERROR">>}

\* Fault variant of IsCompleted: the phase is compared with a misspelt word,
\* so that no phase is finished.  C3 does not hold of it.
IsCompleted_Misspelt(ph) == ph = <<"COMPLETE">>

\* self.status == 'COMPLETED'
IsCompleted(ph) == ph = <<"COMPLETED">>

\* The finished property: status compared with 'COMPLETED'; an error raised by
\* status propagates.
Finished(job, ph, net, wf) ==
    LET p == Poll(job, ph, net, wf) IN
    IF p.out.kind = "raise" THEN p
    ELSE [p EXCEPT !.out = Ret(IF IsCompleted(p.out.val) THEN <<"True">> ELSE <<"False">>)]

\* TAP_AsyncQuery.status
status(j, net, wf) ==
    /\ pc = "idle"
    /\ j \in made
    /\ LET p == Poll(jobs[j], phase[j], net, wf) IN
        /\ jobs' = [jobs EXCEPT ![j].response = p.response]
        /\ cur' = [Call("status", j) EXCEPT !.out = p.out, !.reqs = p.reqs,
                        !.lastPoll = IF p.out.kind = "return" THEN p.out.val ELSE None,
                        !.lastEv = "poll"]
    /\ UNCHANGED <<svc, made, submitted, phase, pc, timervars>>

\* TAP_AsyncQuery.finished
finished(j, net, wf) ==
    /\ pc = "idle"
    /\ j \in made
    /\ LET p == Poll(jobs[j], phase[j], net, wf)
           f == Finished(jobs[j], phase[j], net, wf) IN
        /\ jobs' = [jobs EXCEPT ![j].response = f.response]
        /\ cur' = [Call("finished", j) EXCEPT !.out = f.out, !.reqs = f.reqs,
                        !.lastPoll = IF p.out.kind = "return" THEN p.out.val ELSE None,
                        !.sawCompleted = (p.out = Ret(<<"COMPLETED">>)),
                        !.lastEv = "poll"]
    /\ UNCHANGED <<svc, made, submitted, phase, pc, timervars>>

\* The call record after one more evaluation of finished inside get.
AfterPoll(c, f, p) ==
    [c EXCEPT !.reqs = c.reqs \cup f.reqs,
              !.lastPoll = IF p.out.kind = "return" THEN p.out.val ELSE None,
              !.sawCompleted = c.sawCompleted \/ (p.out = Ret(<<"COMPLETED">>)),
              !.lastEv = "poll",
              !.out = IF f.out.kind = "raise" THEN f.out ELSE Running]

\* The loop condition of get, (not self.finished) & wait: where get goes after
\* one evaluation of it.  finished is evaluated whatever wait is.
WhileCond(f, wait) ==
    IF f.out.kind = "raise" THEN "idle"
    ELSE IF f.out = Ret(<<"False">>) /\ wait THEN "sleep"
    ELSE "check"

\* TAP_AsyncQuery.get, from the call to the first evaluation of the loop
\* condition.
get(j, wait, net, wf) ==
    /\ pc = "idle"
    /\ j \in made
    /\ LET p == Poll(jobs[j], phase[j], net, wf)
           f == Finished(jobs[j], phase[j], net, wf) IN
        /\ jobs' = [jobs EXCEPT ![j].response = f.response]
        /\ cur' = AfterPoll([Call("get", j) EXCEPT !.wait = wait], f, p)
        /\ pc' = WhileCond(f, wait)
    /\ UNCHANGED <<svc, made, submitted, phase, timervars>>

\* get: time.sleep(sleep) in the body of the wait loop.
getSleep ==
    /\ pc = "sleep"
    /\ pc' = "loop"
    /\ cur' = [cur EXCEPT !.slept = TRUE, !.lastEv = "sleep"]
    /\ UNCHANGED <<svc, made, jobs, submitted, phase, timervars>>

\* get: the loop condition evaluated again after a sleep.
getLoop(net, wf) ==
    /\ pc = "loop"
    /\ LET j == cur.job
           p == Poll(jobs[j], phase[j], net, wf)
           f == Finished(jobs[j], phase[j], net, wf) IN
        /\ jobs' = [jobs EXCEPT ![j].response = f.response]
        /\ cur' = AfterPoll(cur, f, p)
        /\ pc' = WhileCond(f, cur.wait)
    /\ UNCHANGED <<svc, made, submitted, phase, timervars>>

\* The result resource of a job.
ResultPath(job) == job.path \o <<"/">> \o job.jobid \o <<"/", "results", "/", "result">>

\* Fault variant of GetResult: no "if not self.finished: return", the result
\* is fetched whatever the second poll answered.  C2 does not hold of it.
GetResult_NoCheck(job, f, rnet, body) ==
    LET rq == Req("GET", job, job.path \o <<"/">> \o job.jobid
                                \o <<"/", "results", "/", "result">>)
        j1 == [job EXCEPT !.response = f.response] IN
    IF f.out.kind = "raise" THEN [job |-> j1, out |-> f.out, reqs |-> {}]
    ELSE IF rnet # "ok"
    THEN [job |-> j1, out |-> Raise("ConnectionError"), reqs |-> {}]
    ELSE LET j2 == [j1 EXCEPT !.response = ResultResponse, !.data = body] IN
         IF body[1] = "VOTABLE"
         THEN [job |-> j2, out |-> Ret(<<"Table", body[2]>>), reqs |-> {rq}]
         ELSE [job |-> j2, out |-> Raise("ParseError"), reqs |-> {rq}]

\* get after its second evaluation of finished (f): return nothing when the job
\* is not finished, else GET the result resource, keep the response and its
\* body on the object and parse the body.
GetResult(job, f, rnet, body) ==
    LET rq == Req("GET", job, ResultPath(job))
        j1 == [job EXCEPT !.response = f.response] IN
    IF f.out.kind = "raise" THEN [job |-> j1, out |-> f.out, reqs |-> {}]
    ELSE IF f.out = Ret(<<"False">>) THEN [job |-> j1, out |-> Ret(None), reqs |-> {}]
    ELSE IF rnet = "refused"
    THEN [job |-> j1, out |-> Raise("ConnectionError"), reqs |-> {}]
    ELSE IF rnet = "dropped"
    THEN [job |-> j1, out |-> Raise("ConnectionError"), reqs |-> {rq}]
    ELSE LET j2 == [j1 EXCEPT !.response = ResultResponse, !.data = body]
             t == ParseVOTable(body) IN
         IF t.ok THEN [job |-> j2, out |-> Ret(t.table), reqs |-> {rq}]
         ELSE [job |-> j2, out |-> Raise("ParseError"), reqs |-> {rq}]

\* get: "if not self.finished: return", then the fetch of the result.
getCheck(net, wf, rnet, body) ==
    /\ pc = "check"
    /\ LET j == cur.job
           p == Poll(jobs[j], phase[j], net, wf)
           f == Finished(jobs[j], phase[j], net, wf)
           g == GetResult(jobs[j], f, rnet, body)
           c == AfterPoll(cur, f, p) IN
        /\ jobs' = [jobs EXCEPT ![j] = g.job]
        /\ cur' = [c EXCEPT !.out = g.out, !.reqs = c.reqs \cup g.reqs,
                            !.lastEv = IF g.reqs = {} THEN c.lastEv ELSE "fetch"]
        /\ pc' = "idle"
    /\ UNCHANGED <<svc, made, submitted, phase, timervars>>

\* The server moves a job to another phase.
ServerStep(j, ph) ==
    /\ j \in made
    /\ jobs[j].jobid # None
    /\ phase[j] # ph
    /\ phase' = [phase EXCEPT ![j] = ph]
    /\ UNCHANGED <<svc, made, jobs, submitted, pc, cur, timervars>>

\* ---------------------------------------------------------- TAP_Service

\* TAP_Service.__init__: host, port and path; the object has no response
\* attribute until query sets one.
NewService(host, path, port) ==
    [host |-> host, port |-> port, path |-> path, response |-> None]

\* TAPVizieR.__init__
TAPVizieR == NewService(<<"tapvizier.u-strasbg.fr">>, <<"/", "TAPVizieR", "/", "tap">>, 80)

\* GaiaArchive.__init__
GaiaArchive == NewService(<<"gea.esac.esa.int">>, <<"/", "tap-server", "/", "tap">>, 80)

Services == {TAPVizieR, GaiaArchive}

\* The ADQL text a caller passes (no operation reads or changes it).
Queries == {<<"SELECT 1">>}

\* TAP_Service.tap_endpoint
tap_endpoint(s) == <<"http://">> \o s.host \o s.path

\* Fault variant of QuerySync: the error of the parse is raised again after
\* the response is kept.  C8 does not hold of it.
QuerySync_Reraise(s, net, body) ==
    LET post == [method |-> "POST", url |-> <<"http://">> \o s.host \o s.path \o <<"/", "sync">>] IN
    IF net = "refused"
    THEN [svc |-> s, out |-> Raise("ConnectionError"), reqs |-> {}, posts |-> 0]
    ELSE IF net = "dropped"
    THEN [svc |-> s, out |-> Raise("ConnectionError"), reqs |-> {post}, posts |-> 1]
    ELSE IF body[1] = "VOTABLE"
    THEN [svc |-> s, out |-> Ret(<<"Table", body[2]>>), reqs |-> {post}, posts |-> 1]
    ELSE [svc |-> [s EXCEPT !.response = SyncResponse], out |-> Raise("ParseError"),
          reqs |-> {post}, posts |-> 1]

\* Fault variant of QuerySync: the sync endpoint is built by appending to
\* self.path in place.  C7 (as amended) does not hold of it.
QuerySync_PathInPlace(s, net, body) ==
    LET s1 == [s EXCEPT !.path = s.path \o <<"/", "sync">>]
        post == [method |-> "POST", url |-> <<"http://">> \o s1.host \o s1.path] IN
    IF net = "refused"
    THEN [svc |-> s1, out |-> Raise("ConnectionError"), reqs |-> {}, posts |-> 0]
    ELSE IF net = "dropped"
    THEN [svc |-> s1, out |-> Raise("ConnectionError"), reqs |-> {post}, posts |-> 1]
    ELSE IF body[1] = "VOTABLE"
    THEN [svc |-> s1, out |-> Ret(<<"Table", body[2]>>), reqs |-> {post}, posts |-> 1]
    ELSE [svc |-> [s1 EXCEPT !.response = SyncResponse], out |-> Ret(None),
          reqs |-> {post}, posts |-> 1]

\* The synchronous branch of query: one requests.post to the sync endpoint,
\* then the parse of the body; a parse failure is caught, the response kept on
\* the service and nothing returned.
QuerySync(s, net, body) ==
    LET post == [method |-> "POST", url |-> tap_endpoint(s) \o <<"/", "sync">>]
        t == ParseVOTable(body) IN
    IF net = "refused"
    THEN [svc |-> s, out |-> Raise("ConnectionError"), reqs |-> {}, posts |-> 0]
    ELSE IF net = "dropped"
    THEN [svc |-> s, out |-> Raise("ConnectionError"), reqs |-> {post}, posts |-> 1]
    ELSE IF t.ok
    THEN [svc |-> s, out |-> Ret(t.table), reqs |-> {post}, posts |-> 1]
    ELSE [svc |-> [s EXCEPT !.response = SyncResponse], out |-> Ret(None),
          reqs |-> {post}, posts |-> 1]

\* The job query_async builds from the service.
AsyncJob(s, adql_query) ==
    NewJob(adql_query, s.host, s.path \o <<"/", "async">>, s.port)

\* The lowest free slot of jobs.
FreeSlot == CHOOSE j \in Jobs \ made : \A k \in Jobs \ made : j <= k

\* query_async: the job is built, submitted when asked to, and returned; an
\* error of submit propagates and the job is not returned.
QueryAsync(op, adql_query, dosubmit, net, hdr, silent) ==
    /\ pc = "idle"
    /\ made # Jobs
    /\ LET j == FreeSlot
           q == AsyncJob(svc, adql_query)
           e == IF dosubmit THEN SubmitEffect(q, net, hdr, silent)
                ELSE [job |-> q, out |-> Ret(None), reqs |-> {}, posts |-> 0,
                      printed |-> FALSE] IN
        IF e.out.kind = "raise"
        THEN /\ cur' = [Call(op, 0) EXCEPT !.out = e.out, !.reqs = e.reqs,
                                                    !.posts = e.posts]
             /\ UNCHANGED <<made, jobs, submitted>>
        ELSE /\ cur' = [Call(op, j) EXCEPT !.out = Ret(<<"TAP_AsyncQuery">>),
                             !.reqs = e.reqs, !.posts = e.posts, !.printed = e.printed]
             /\ made' = made \cup {j}
             /\ jobs' = [jobs EXCEPT ![j] = e.job]
             /\ submitted' = IF dosubmit THEN submitted \cup {j} ELSE submitted
    /\ UNCHANGED <<svc, phase, pc, timervars>>

\* TAP_Service.query_async
query_async(adql_query, dosubmit, net, hdr, silent) ==
    QueryAsync("query_async", adql_query, dosubmit, net, hdr, silent)

\* TAP_Service.query
query(adql_query, sync, net, body, hdr) ==
    IF sync
    THEN /\ pc = "idle"
         /\ LET e == QuerySync(svc, net, body) IN
             /\ svc' = e.svc
             /\ cur' = [Call("query", 0) EXCEPT !.out = e.out, !.reqs = e.reqs,
                                                !.posts = e.posts]
         /\ UNCHANGED <<made, jobs, submitted, phase, pc, timervars>>
    ELSE QueryAsync("query", adql_query, TRUE, net, hdr, FALSE)

\* ---------------------------------------------------------------- timeit

\* Durations and clock readings are whole microseconds: t seconds is
\* us = t * 10^6.  The number of decimal digits of n > 0 is floor(log10(n)) + 1.
Digits(n) == CHOOSE d \in 1..10 : 10^(d - 1) <= n /\ (d = 10 \/ n < 10^d)

Min(a, b) == IF a <= b THEN a ELSE b

\* The index into units and scaling that _pretty_print_time picks:
\* min(-int(floor(log10(t)) // 3), 3) for 0 < t < 1000, 0 from 1000 on and 3
\* for t <= 0.  floor(log10(t)) is Digits(us) - 7 and // rounds down.
Order(us) ==
    IF us > 0 /\ us < 10^9 THEN Min(-((Digits(us) - 7) \div 3), 3)
    ELSE IF us >= 10^9 THEN 0
    ELSE 3

Units == <<"s", "ms", "us", "ns">>

\* n rounded to three significant digits, as "%.3g" prints it (ties up).
Round3(n) ==
    IF n <= 0 THEN n
    ELSE IF Digits(n) <= 3 THEN n
    ELSE LET q == 10^(Digits(n) - 3) IN ((n + q \div 2) \div q) * q

\* timeit._pretty_print_time: the number shown is num / 10^exp in the unit.
pretty_print_time(us) ==
    [num |-> Round3(us), exp |-> 6 - 3 * Order(us), unit |-> Units[Order(us) + 1]]

\* The module-level name display: IPython's function, or None when the import
\* of IPython failed.
Displays == {"IPython", "None"}

\* The callables a timeit object wraps (None: used as a context manager).
Funcs == {"None", "func"}

\* What the timed body does: it completes, or it raises one of these.
BodyExits == {"ok", "ValueError", "KeyboardInterrupt"}

\* The readings of time.time(); the wall clock may step back between two.
Times == {0, 1, 500, 1000000, 500000000, 1500000000}

\* timeit.__init__: text is ''; start and stop do not exist until __enter__
\* and __exit__ (-1: no attribute).
NewTimer(func) ==
    [func |-> func, text |-> [num |-> 0, exp |-> 0, unit |-> ""], start |-> -1,
     stop |-> -1]

NoTimerCall ==
    [mode |-> "none", at |-> "idle", body |-> "ok", out |-> Running,
     events |-> <<>>]

\* The object the with statement of the current use times: self for
\* "with timeit():", the fresh timeit() of __call__ for a decorator call.
Timed == IF tmcall.mode = "call" THEN "inner" ELSE "self"

\* timeit.__enter__
Enter(t, now) == [t EXCEPT !.start = now]

\* timeit.__exit__ up to the display: stop, then text.
ExitAssign(t, now) ==
    [t EXCEPT !.stop = now, !.text = pretty_print_time(now - t.start)]

\* "with self:" is entered: __enter__ records the start.
tmWith(now) ==
    /\ tmcall.at = "idle"
    /\ tm' = [tm EXCEPT !.self = Enter(tm.self, now)]
    /\ tmcall' = [NoTimerCall EXCEPT !.mode = "with", !.at = "body",
                                     !.events = <<"start">>]
    /\ UNCHANGED <<tapvars, display>>

\* timeit.__call__: nothing is timed without a func; otherwise a fresh timeit()
\* is entered around the call of func.
tmCall(now) ==
    /\ tmcall.at = "idle"
    /\ IF tm.self.func = "None"
       THEN /\ tmcall' = [NoTimerCall EXCEPT !.mode = "call", !.at = "idle",
                                             !.out = Ret(None)]
            /\ tm' = tm
       ELSE /\ tmcall' = [NoTimerCall EXCEPT !.mode = "call", !.at = "body",
                                             !.events = <<"start">>]
            /\ tm' = [tm EXCEPT !.inner = Enter(NewTimer("None"), now)]
    /\ UNCHANGED <<tapvars, display>>

\* The timed body runs to its end or raises.
tmBody(exit) ==
    /\ tmcall.at = "body"
    /\ tmcall' = [tmcall EXCEPT !.at = "exit", !.body = exit]
    /\ UNCHANGED <<tapvars, display, tm>>

\* How the with statement ends once __exit__ has run: a None display is not
\* callable and raises the TypeError out of __exit__; otherwise __exit__
\* returns None and the exception of the body, if any, goes on.
ExitOutcome(disp, body, mode) ==
    IF disp = "None" THEN Raise("TypeError")
    ELSE IF body # "ok" THEN Raise(body)
    ELSE IF mode = "call" THEN Ret(<<"result">>)
    ELSE Ret(None)

\* timeit.__exit__, reached on every exit of the body.
tmExit(now) ==
    /\ tmcall.at = "exit"
    /\ tm' = [tm EXCEPT ![Timed] = ExitAssign(tm[Timed], now)]
    /\ tmcall' = [tmcall EXCEPT
                    !.at = "idle",
                    !.out = ExitOutcome(display, tmcall.body, tmcall.mode),
                    !.events = tmcall.events \o
                        (IF display = "None" THEN <<"stop", "text">>
                         ELSE <<"stop", "text", "display">>)]
    /\ UNCHANGED <<tapvars, display>>

\* ------------------------------------------------------- specifications

TimerIdle ==
    /\ display = "IPython"
    /\ tm = [self |-> NewTimer("None"), inner |-> NewTimer("None")]
    /\ tmcall = NoTimerCall

TapIdle ==
    /\ svc = TAPVizieR
    /\ made = {}
    /\ submitted = {}
    /\ jobs = [j \in Jobs |-> NoJob]
    /\ phase = [j \in Jobs |-> "EXECUTING"]
    /\ pc = "idle"
    /\ cur = NoCall

\* One TAP_AsyncQuery, as query_async(adql, submit=False) of a preset returns
\* it: constructed and not submitted.
Init ==
    /\ svc \in Services
    /\ made = {1}
    /\ submitted = {}
    /\ \E q \in Queries :
         jobs = [j \in Jobs |-> IF j = 1 THEN AsyncJob(svc, q) ELSE NoJob]
    /\ phase = [j \in Jobs |-> "EXECUTING"]
    /\ pc = "idle"
    /\ cur = NoCall
    /\ TimerIdle

\* The answers of the network and the server that differ in their effect: to
\* a submit, to a status poll, and to the GET of the result.
SubmitAnswers ==
    {[net |-> n, hdr |-> None] : n \in Nets \ {"ok"}}
        \cup {[net |-> "ok", hdr |-> h] : h \in Headers}

PollAnswers ==
    {[net |-> n, wf |-> TRUE] : n \in Nets \ {"ok"}}
        \cup {[net |-> "ok", wf |-> w] : w \in BOOLEAN}

FetchAnswers ==
    {[net |-> n, body |-> <<"garbage">>] : n \in Nets \ {"ok"}}
        \cup {[net |-> "ok", body |-> b] : b \in Bodies}

\* The operations of the job, with every answer of the server and the network.
JobNext ==
    \/ \E j \in made, a \in SubmitAnswers, silent \in BOOLEAN :
         submit(j, a.net, a.hdr, silent)
    \/ \E j \in made, a \in PollAnswers : status(j, a.net, a.wf)
    \/ \E j \in made, a \in PollAnswers : finished(j, a.net, a.wf)
    \/ \E j \in made, wait \in BOOLEAN, a \in PollAnswers : get(j, wait, a.net, a.wf)
    \/ getSleep
    \/ \E a \in PollAnswers : getLoop(a.net, a.wf)
    \/ \E a \in PollAnswers, r \in FetchAnswers : getCheck(a.net, a.wf, r.net, r.body)
    \/ \E j \in made, ph \in Phases : ServerStep(j, ph)

Next == JobNext

Spec == Init /\ [][Next]_vars

\* The steps of a get in progress.
GetStep ==
    \/ getSleep
    \/ \E a \in PollAnswers : getLoop(a.net, a.wf)
    \/ \E a \in PollAnswers, r \in FetchAnswers : getCheck(a.net, a.wf, r.net, r.body)

\* The calling thread runs on: a sleep returns, and every HTTP exchange ends
\* with a response or an error, so a get in progress takes its next step.
LiveSpec == Init /\ [][Next]_vars /\ WF_vars(GetStep)

\* A service as a preset builds it, and no job yet.
InitService ==
    /\ svc \in Services
    /\ made = {}
    /\ submitted = {}
    /\ jobs = [j \in Jobs |-> NoJob]
    /\ phase = [j \in Jobs |-> "EXECUTING"]
    /\ pc = "idle"
    /\ cur = NoCall
    /\ TimerIdle

\* The answers a job of the service gets to its submit: no location header, or
\* the location of a job.
ServiceSubmitAnswers ==
    {[net |-> "ok", hdr |-> None], [net |-> "ok", hdr |-> <<"/", "a">>]}

\* The answers to a synchronous query: no connection, no response, a body
\* that does not parse, or a table.
SyncAnswers ==
    {[net |-> "refused", body |-> <<"garbage">>], [net |-> "dropped", body |-> <<"garbage">>],
     [net |-> "ok", body |-> <<"garbage">>], [net |-> "ok", body |-> <<"VOTABLE", "t1">>]}

\* The calls on the service, and the operations of the jobs it built.
ServiceNext ==
    \/ \E q \in Queries, r \in SyncAnswers : query(q, TRUE, r.net, r.body, None)
    \/ \E q \in Queries, a \in ServiceSubmitAnswers :
         query(q, FALSE, a.net, <<"garbage">>, a.hdr)
    \/ \E q \in Queries, dosubmit \in BOOLEAN, a \in ServiceSubmitAnswers :
         query_async(q, dosubmit, a.net, a.hdr, TRUE)
    \/ \E j \in made, a \in ServiceSubmitAnswers : submit(j, a.net, a.hdr, TRUE)
    \/ \E j \in made : status(j, "ok", TRUE)
    \/ \E j \in made, wait \in BOOLEAN : get(j, wait, "ok", TRUE)
    \/ getSleep
    \/ getLoop("ok", TRUE)
    \/ getCheck("ok", TRUE, "ok", <<"VOTABLE", "t1">>)
    \/ \E j \in made : ServerStep(j, "COMPLETED")

SpecService == InitService /\ [][ServiceNext]_vars

\* A timeit object, and the display the module imported or failed to import.
InitTimer ==
    /\ TapIdle
    /\ display \in Displays
    /\ \E f \in Funcs : tm = [self |-> NewTimer(f), inner |-> NewTimer("None")]
    /\ tmcall = NoTimerCall

TimerNext ==
    \/ \E now \in Times : tmWith(now)
    \/ \E now \in Times : tmCall(now)
    \/ \E exit \in BodyExits : tmBody(exit)
    \/ \E now \in Times : tmExit(now)

SpecTimer == InitTimer /\ [][TimerNext]_vars

\* ================================================================ claims

\* jobid is the part of location after its last "/": a suffix of location
\* that holds no "/" and is either the whole of it or preceded by a "/".
IsLastSegment(jobid, loc) ==
    \E k \in 0..Len(loc) :
        /\ jobid = SubSeq(loc, k + 1, Len(loc))
        /\ \A i \in 1..Len(jobid) : jobid[i] # "/"
        /\ (k = 0 \/ loc[k] = "/")

\* C1: on every job, jobid and location are both None in every state before
\* the first submit that returns without raising; a submit that fails (no
\* connection, no response, or a response without a location header) leaves
\* both None there.
C1_UnsetUntilSubmitReturns ==
    \A j \in made \ submitted :
        jobs[j].jobid = None /\ jobs[j].location = None

\* C1 witness: a submit has failed on a response without location header (the
\* response is kept), and the job was never submitted successfully.
C1_Witness ==
    /\ pc = "idle" /\ cur.op = "submit" /\ cur.out = Raise("TypeError")
    /\ cur.job \in made \ submitted
    /\ jobs[cur.job].response = SubmitResponse(None)

\* C10: after any sequence of submit calls, location and jobid agree: both are
\* None, or jobid is the part of location after its last "/".
C10_LocationAndJobidAgree ==
    \A j \in made :
        \/ jobs[j].location = None /\ jobs[j].jobid = None
        \/ jobs[j].location # None /\ jobs[j].jobid # None
             /\ IsLastSegment(jobs[j].jobid, jobs[j].location)

\* C6: submit sends at most one request, the POST of the query to the job's
\* path, and exactly one when a response comes back; when the response
\* carries a location header submit returns, location is the header and jobid
\* its part after the last "/"; when it carries none submit raises, and jobid
\* keeps the value it had.
C6_Submit ==
    /\ [](pc = "idle" /\ cur.op = "submit" =>
            LET job == jobs[cur.job] IN
            /\ cur.posts = Cardinality(cur.reqs)
            /\ cur.reqs \subseteq {Req("POST", job, job.path)}
            /\ (cur.out # Raise("ConnectionError") =>
                  /\ cur.posts = 1
                  /\ \E h \in Headers : job.response = SubmitResponse(h)
                  /\ job.location = job.response[3]
                  /\ IF job.location # None
                     THEN cur.out = Ret(None) /\ IsLastSegment(job.jobid, job.location)
                     ELSE cur.out.kind = "raise"))
    /\ [][cur'.op = "submit" /\ cur'.out.kind = "raise" =>
            jobs'[cur'.job].jobid = jobs[cur'.job].jobid]_vars

\* C6 witness: a submit has returned on a location with two "/", whose job
\* identifier is empty.
C6_Witness ==
    /\ pc = "idle" /\ cur.op = "submit" /\ cur.out = Ret(None) /\ cur.posts = 1
    /\ jobs[cur.job].location = <<"/", "/">>
    /\ jobs[cur.job].jobid = <<>>

\* C5: on a job whose jobid is None, status, finished and get (waiting or not)
\* each raise, send no request and leave every attribute of the job as it was.
C5_NoJobidFails ==
    [][cur'.op \in {"status", "finished", "get"} =>
       \A j \in made, a \in PollAnswers, wait \in BOOLEAN :
         (/\ jobs[j].jobid = None
          /\ \/ status(j, a.net, a.wf)
             \/ finished(j, a.net, a.wf)
             \/ get(j, wait, a.net, a.wf)) =>
           /\ cur'.out.kind = "raise"
           /\ cur'.reqs = {}
           /\ pc' = "idle"
           /\ jobs'[j] = jobs[j]]_vars

\* C5 witness: get(wait=True) has raised on a job whose every submit failed.
C5_Witness ==
    /\ pc = "idle" /\ cur.op = "get" /\ cur.wait /\ cur.out.kind = "raise"
    /\ jobs[cur.job].jobid = None
    /\ jobs[cur.job].response = SubmitResponse(None)
    /\ cur.reqs = {}

\* The GETs of a result resource among the requests of a call.
ResultGets(c) ==
    {r \in c.reqs : /\ r.method = "GET"
                    /\ Len(r.path) >= 4
                    /\ SubSeq(r.path, Len(r.path) - 3, Len(r.path))
                         = <<"/", "results", "/", "result">>}

NotCompleted == {<<ph>> : ph \in Phases \ {"COMPLETED"}}

\* C2: get(wait=False) never sleeps, and when its last status poll answered a
\* phase other than COMPLETED it returns None without a GET of the result; in
\* every get, the result is requested only if the status poll made just
\* before answered COMPLETED.
C2_NoFetchUnlessCompleted ==
    cur.op = "get" =>
        /\ (ResultGets(cur) # {} => cur.lastPoll = <<"COMPLETED">>)
        /\ (~cur.wait => ~cur.slept /\ pc \notin {"sleep", "loop"})
        /\ (pc = "idle" /\ ~cur.wait /\ cur.lastPoll \in NotCompleted =>
              cur.out = Ret(None) /\ ResultGets(cur) = {})

\* C2 witness: get(wait=False) has returned None on a submitted job that the
\* server reports as EXECUTING.
C2_Witness ==
    /\ pc = "idle" /\ cur.op = "get" /\ ~cur.wait
    /\ cur.job \in submitted
    /\ cur.lastPoll = <<"EXECUTING">> /\ phase[cur.job] = "EXECUTING"
    /\ cur.out = Ret(None)

\* C4: get(wait=True) does not end while no status poll of the call has
\* answered COMPLETED, unless a poll itself fails: after a poll that answered
\* another phase (ERROR included) it sleeps and polls again, with no other
\* way out; finished is true exactly when the polled phase is COMPLETED.
C4_WaitsForCompleted ==
    /\ (cur.op = "get" /\ cur.wait /\ ~cur.sawCompleted =>
          \/ pc \in {"sleep", "loop"} /\ cur.lastPoll \in NotCompleted
          \/ pc = "idle" /\ cur.out.kind = "raise" /\ cur.lastPoll = None)
    /\ (cur.op = "finished" /\ cur.out.kind = "return" =>
          (cur.out = Ret(<<"True">>) <=> cur.lastPoll = <<"COMPLETED">>))

\* C4 witness: get(wait=True) has slept and is about to poll again a job the
\* server reports in the terminal phase ERROR.
C4_Witness ==
    /\ pc = "loop" /\ cur.op = "get" /\ cur.wait /\ cur.slept
    /\ cur.lastPoll = <<"ERROR">> /\ phase[cur.job] = "ERROR"
    /\ ~cur.sawCompleted

\* A get(wait=True) on job j is in progress.
WaitingGet(j) == pc # "idle" /\ cur.op = "get" /\ cur.job = j /\ cur.wait

\* The GET of the result resource of a job.
ResultReq(job) ==
    [method |-> "GET", host |-> job.host, port |-> job.port,
     path |-> job.path \o <<"/">> \o job.jobid \o <<"/", "results", "/", "result">>]

\* get(wait=True) on job j has ended with the table parsed from the body of
\* the result resource, or with the error of an HTTP exchange that failed.
GetEnded(j) ==
    /\ pc = "idle" /\ cur.op = "get" /\ cur.job = j /\ cur.wait
    /\ \/ cur.out.kind = "raise" /\ cur.out.val # <<"TypeError">>
       \/ /\ cur.out.kind = "return"
          /\ ResultReq(jobs[j]) \in cur.reqs
          /\ jobs[j].data \in Bodies /\ jobs[j].data[1] = "VOTABLE"
          /\ cur.out.val = <<"Table", jobs[j].data[2]>>

\* C3: once the server holds a job in COMPLETED for good, a get(wait=True) in
\* progress on it ends, and (unless one of its HTTP exchanges fails) returns
\* the table parsed from the body of GET {path}/{jobid}/results/result, never
\* None; while its polls answer another phase it does not end: each such poll
\* is followed by a sleep and each sleep by a poll.
C3_GetReturnsTable ==
    /\ \A j \in Jobs :
         []((WaitingGet(j) /\ [](phase[j] = "COMPLETED")) => <>GetEnded(j))
    /\ [](cur.op = "get" /\ cur.wait =>
            /\ (pc = "sleep" => cur.lastEv = "poll" /\ cur.lastPoll \in NotCompleted)
            /\ (pc = "loop" => cur.lastEv = "sleep")
            /\ (pc = "idle" /\ cur.out.kind = "return" /\ cur.lastPoll = <<"COMPLETED">>
                  => GetEnded(cur.job)))
    /\ [][cur.op = "get" /\ cur.wait /\ pc = "sleep" /\ pc' # pc =>
            pc' = "loop" /\ jobs' = jobs /\ cur'.reqs = cur.reqs]_vars

\* C3 witness: get(wait=True) slept while the job was not finished and, the
\* phase being COMPLETED, has returned the table of the result body.
C3_Witness ==
    /\ pc = "idle" /\ cur.op = "get" /\ cur.wait /\ cur.slept
    /\ phase[cur.job] = "COMPLETED"
    /\ cur.out = Ret(<<"Table", "t2">>)
    /\ jobs[cur.job].data = <<"VOTABLE", "t2">>

\* The operations of a job.
JobOps == {"submit", "status", "finished", "get"}

\* A step of an operation of job j (a step of its get included).
JobOpStep(j) ==
    /\ cur'.op \in JobOps /\ cur'.job = j
    /\ <<cur, jobs, pc>>' # <<cur, jobs, pc>>

\* A call on the service.
ServiceCallStep ==
    /\ cur'.op \in {"query", "query_async"}
    /\ <<cur, jobs, svc>>' # <<cur, jobs, svc>>

\* Every job holds the host and port of the service and its path suffixed
\* with "/async"; an operation of one job changes neither the service nor
\* another job, and a call on the service changes no job built before.
JobsOwnTheirParameters ==
    /\ [](\A j \in made :
            /\ jobs[j].host = svc.host /\ jobs[j].port = svc.port
            /\ jobs[j].path = svc.path \o <<"/", "async">>)
    /\ [][\A j \in made : JobOpStep(j) =>
            svc' = svc /\ \A k \in Jobs \ {j} : jobs'[k] = jobs[k]]_vars
    /\ [][ServiceCallStep => \A k \in made : jobs'[k] = jobs[k]]_vars

\* C7 as stated: no call changes any attribute of the service, and the jobs
\* own their parameters.
C7_ServiceImmutable ==
    /\ [][svc' = svc]_vars
    /\ JobsOwnTheirParameters

\* C7 as amended: no call changes host, port or path of the service; the one
\* attribute a call sets is response, which query(sync=True) sets to the raw
\* response when the body does not parse (it then returns None); and the jobs
\* own their parameters.
C7_ServiceParametersImmutable ==
    /\ [][/\ svc'.host = svc.host /\ svc'.port = svc.port /\ svc'.path = svc.path
          /\ (svc'.response # svc.response =>
                /\ svc'.response = SyncResponse
                /\ cur'.op = "query" /\ cur'.out = Ret(None))]_vars
    /\ JobsOwnTheirParameters

\* C7 witness: the service has kept the response of a query that did not
\* parse and has built two jobs, of which the first was submitted and has
\* fetched its result while the second was never submitted.
C7_Witness ==
    /\ svc.response = SyncResponse
    /\ made = Jobs
    /\ jobs[1].jobid = <<"a">> /\ jobs[1].data = <<"VOTABLE", "t1">>
    /\ jobs[2].jobid = None /\ jobs[2].response = None
    /\ cur.op = "get" /\ cur.job = 1 /\ pc = "idle"

\* C8: query(adql, sync=True) sends one POST to {endpoint}/sync; a body that
\* parses is returned as the table; a body that does not parse makes it
\* return None, raise nothing and keep the raw response on the service as
\* response; a failure of the POST is raised to the caller, the service
\* unchanged.
C8_QuerySync ==
    [][cur'.op = "query" =>
       \A q \in Queries, r \in SyncAnswers :
         query(q, TRUE, r.net, r.body, None) =>
           LET post == [method |-> "POST",
                        url |-> <<"http://">> \o svc.host \o svc.path \o <<"/", "sync">>] IN
           /\ cur'.posts <= 1 /\ cur'.reqs \subseteq {post}
           /\ cur'.posts = Cardinality(cur'.reqs)
           /\ (r.net = "ok" => cur'.posts = 1)
           /\ (r.net = "ok" /\ r.body[1] = "VOTABLE" =>
                 cur'.out = Ret(<<"Table", r.body[2]>>) /\ svc' = svc)
           /\ (r.net = "ok" /\ r.body[1] # "VOTABLE" =>
                 /\ cur'.out = Ret(None)
                 /\ svc' = [svc EXCEPT !.response = SyncResponse])
           /\ (r.net # "ok" => cur'.out = Raise("ConnectionError") /\ svc' = svc)]_vars

\* C8 witness: a synchronous query has returned None after one POST, and the
\* service holds the raw response.
C8_Witness ==
    /\ cur.op = "query" /\ cur.job = 0 /\ cur.out = Ret(None) /\ cur.posts = 1
    /\ svc.response = SyncResponse

\* C9: on every exit of a scope timed by timeit, by an exception of the body
\* included, stop is recorded after start, the text is computed and one
\* display is made; and an exception of the body reaches the caller as itself.
C9_TimerRecordsAndPropagates ==
    tmcall.at = "idle" /\ tmcall.events # <<>> =>
        /\ tmcall.events = <<"start", "stop", "text", "display">>
        /\ tm[Timed].text = pretty_print_time(tm[Timed].stop - tm[Timed].start)
        /\ (tmcall.body # "ok" => tmcall.out = Raise(tmcall.body))
        /\ (tmcall.body = "ok" => tmcall.out.kind = "return")

====
